---- MODULE Spec2Model ----
(***************************************************************************)
(* Model of the NATS JetStream -> HTTP connector                           *)
(* (cmd/nats-jetstream-http-connector/main.go and its environment-driven   *)
(* variant): the push-delivery callback with its channel semaphore, the    *)
(* per-message handling goroutine, the retry loop of HandleHTTPRequest,    *)
(* the response/error routing and the acknowledgement.                     *)
(***************************************************************************)
EXTENDS Integers, Sequences, FiniteSets, TLC

\* ---------------------------------------------------------------- bounds
\* Largest MAX_RETRIES the model enumerates.
MaxRetriesBound == 2
\* Largest CONCURRENT (capacity of concurrentSem) the model enumerates.
MaxConcurrent == 2
\* Number of deliveries the transport pushes in the dispatcher scenarios.
NumMsgs == 3
\* Number of deliveries in the pipeline scenarios (every configuration and
\* every endpoint behaviour); at most NumMsgs.
PipelineMsgs == 1

\* Deliveries of the shutdown scenarios.
ShutdownMsgs == 2

\* ------------------------------------------------------- environment data
\* "No response": the nil *http.Response.
Nil == 0

\* Response statuses the endpoint may answer with.  The code compares only
\* against 200 and 300, so these cover every class on both sides of each.
Statuses == {199, 200, 299, 300, 500}

\* Status of the response http.Client.Do hands back together with an error
\* when the redirect policy fails (the only non-nil response with an error).
RedirectStatus == 302

\* What one call of http.DefaultClient.Do can return: (resp, err).
Outcomes ==
  {[resp |-> s, err |-> FALSE] : s \in Statuses}
    \cup {[resp |-> Nil, err |-> TRUE], [resp |-> RedirectStatus, err |-> TRUE]}

Msgs == 1..NumMsgs

\* Response bodies (byte strings) the endpoint may send.
Bodies == {<< >>, <<1>>, <<1, 0>>}

\* The specification's success interval [200,300).
In2xx(s) == s >= 200 /\ s <= 299

\* ------------------------------------------------------------------ state
VARIABLES
  cfg,            \* Config: MaxRetries, Concurrent, ResponseTopic, ErrorTopic, HTTPEndpoint,
                  \* Topic, Consumer, AckWait
  env,            \* the collaborators: what the endpoint answers, whether I/O may fail
  svc,            \* the service: Main, the goroutine of mainErr, the consumer service
  hdr,            \* the headers of one message on their way into the request
  pending,        \* deliveries the transport still has to push
  delivered,      \* deliveries pushed so far (the last one is the callback's msg)
  cb,             \* the Consume callback: "idle" or "send" (at concurrentSem <- 1)
  concurrentSem,  \* number of elements buffered in the channel
  rootDone,       \* the root context is cancelled
  task,           \* per delivery: the handling goroutine
  acked,          \* per delivery: result of msg.Ack(): "none", "ok", "err"
  graceful        \* the GracefulStopper: its mutex, its registry, the callers of
                  \* start and of ShutdownAll

vars ==
  <<cfg, env, svc, hdr, pending, delivered, cb, concurrentSem, rootDone, task, acked,
    graceful>>

NoResult == [kind |-> "none", code |-> Nil]

\* A goroutine that does not exist (not spawned yet).
NoTask ==
  [pc |-> "idle", ctxDone |-> FALSE, attempt |-> 0, resp |-> Nil,
   tries |-> 0, lastOut |-> Nil, lastResp |-> Nil, nilSeen |-> FALSE,
   got2xxAt |-> -1,
   result |-> NoResult, read |-> "none", respPub |-> "none",
   errPub |-> "none", errArg |-> NoResult, ctxAtCheck |-> "unchecked",
   sent |-> << >>, body |-> << >>, payload |-> << >>,
   respPubs |-> 0, errCalls |-> 0, errPubs |-> 0,
   ctxAtTry |-> "untried", startedDone |-> FALSE, acks |-> 0, timeout |-> 0]

\* A goroutine that has returned: its locals are gone, its context is
\* cancelled by the deferred cancel().
EndedTask == [NoTask EXCEPT !.pc = "done", !.ctxDone = TRUE]

Configs ==
  [MaxRetries : (-1)..MaxRetriesBound,
   Concurrent : 0..MaxConcurrent,
   ResponseTopic : BOOLEAN,      \* TRUE: RESPONSE_TOPIC is a non-empty string
   ErrorTopic : BOOLEAN,         \* TRUE: ERROR_TOPIC is a non-empty string
   HTTPEndpoint : BOOLEAN,       \* TRUE: HTTP_ENDPOINT parses as a URL
   Topic : {"orders"},
   Consumer : {"worker"},
   AckWait : {30},               \* seconds
   Entry : {"main"}]             \* "main": main.go, "env": the variant read
                                 \* from the environment

\* Values of ACKWAIT, in seconds.
AckWaits == {0, 30}

\* Letters, for the case mapping of header keys.
LowerCase ==
  <<"a", "b", "c", "d", "e", "f", "g", "h", "i", "j", "k", "l", "m",
    "n", "o", "p", "q", "r", "s", "t", "u", "v", "w", "x", "y", "z">>

UpperCase ==
  <<"A", "B", "C", "D", "E", "F", "G", "H", "I", "J", "K", "L", "M",
    "N", "O", "P", "Q", "R", "S", "T", "U", "V", "W", "X", "Y", "Z">>

\* Header keys, as sequences of characters.
KeyTopic == <<"T", "o", "p", "i", "c">>
KeyRespTopic == <<"R", "e", "s", "p", "T", "o", "p", "i", "c">>
KeyErrorTopic == <<"E", "r", "r", "o", "r", "T", "o", "p", "i", "c">>
KeyContentType == <<"C", "o", "n", "t", "e", "n", "t", "-", "T", "y", "p", "e">>
KeySourceName == <<"S", "o", "u", "r", "c", "e", "-", "N", "a", "m", "e">>
KeyLowerTopic == <<"t", "o", "p", "i", "c">>
KeyLowerContentType == <<"c", "o", "n", "t", "e", "n", "t", "-", "t", "y", "p", "e">>
KeyXId == <<"X", "-", "I", "d">>

ConnectorKeys ==
  {KeyTopic, KeyRespTopic, KeyErrorTopic, KeyContentType, KeySourceName}

\* Keys and value lists a message may carry, and the header maps made of
\* at most two of them.
InboundKeys == {KeyTopic, KeyLowerTopic, KeyRespTopic, KeyLowerContentType, KeyXId}

InboundValues == {<<"x">>, <<"x", "y">>}

InboundHeaders ==
  UNION {[ks -> InboundValues] : ks \in {k \in SUBSET InboundKeys : Cardinality(k) <= 2}}

\* A map without keys.
NoHeaders == [k \in {} |-> << >>]

\* No message is being turned into a request.
NoHdr == [pc |-> "none", inbound |-> NoHeaders, headers |-> NoHeaders,
          todo |-> {}, req |-> NoHeaders]

\* The process has not exited.
NotExited == -1

\* No consumer configuration was sent to the broker.
NoConf == [Durable |-> "", AckPolicy |-> "", FilterSubject |-> "", AckWait |-> 0]

\* Number of services registered with the stopper, each by its own caller
\* of start, and number of calls of ShutdownAll.
MaxServices == 3
MaxShutdowns == 2
Services == 1..MaxServices

\* NewGracefulStopper: the mutex free, no server registered; no caller of
\* start or of ShutdownAll has begun, no shutdown function was invoked.
NoStopper ==
  [mx |-> "free", servers |-> << >>,
   reg |-> [s \in Services |-> "idle"],
   sd |-> "idle", todo |-> << >>, batch |-> {}, wg |-> 0,
   worker |-> [s \in Services |-> "none"],
   calls |-> [s \in Services |-> 0],
   rounds |-> 0, cleared |-> {}]

\* Main has just started the goroutine that calls mainErr: mainInit open,
\* mainErr empty, nothing registered with the graceful stopper.
StartSvc ==
  [main |-> "waitInit", fn |-> "connect", run |-> "none",
   mainInit |-> FALSE, mainErr |-> FALSE, doneAny |-> 0, err |-> FALSE,
   cause |-> "none", servers |-> 0, handle |-> "none", creates |-> 0,
   conf |-> NoConf, consuming |-> FALSE, logged |-> FALSE, exit |-> NotExited,
   httpDown |-> 0]

\* The service is up: the consumer was attached and consumes, mainErr waits
\* in ListenAndServe, Main waits for the root context or DoneAny with the
\* consumer service and the api and metrics servers registered.
ServingSvc ==
  [StartSvc EXCEPT !.main = "serving", !.fn = "blocked", !.run = "wait",
                   !.mainInit = TRUE, !.servers = 3, !.handle = "attached",
                   !.consuming = TRUE]

\* make(chan int, cfg.Concurrent); nothing delivered, no goroutine.
InitState ==
  /\ svc = ServingSvc
  /\ hdr = NoHdr
  /\ delivered = 0
  /\ cb = "idle"
  /\ concurrentSem = 0
  /\ rootDone = FALSE
  /\ task = [m \in Msgs |-> NoTask]
  /\ acked = [m \in Msgs |-> "none"]
  /\ graceful = NoStopper

\* The pipeline scenarios: every configuration of the handling with a gate of
\* at most one slot, an endpoint and a transport that may answer anything, a
\* broker and a response body that may fail.
PipelineConfigs == {c \in Configs : c.Concurrent <= 1}

Init ==
  /\ cfg \in PipelineConfigs
  /\ env = [outcomes |-> Outcomes, faults |-> TRUE, bodies |-> {<<1>>}]
  /\ pending = PipelineMsgs
  /\ InitState

\* The dispatcher scenarios: NumMsgs deliveries, every capacity of the
\* semaphore, one attempt per message, both topics configured, an endpoint
\* that answers 200 and a broker that works; a handling fails only through
\* a cancelled context.
GateConfigs ==
  {c \in Configs : /\ c.MaxRetries = 0
                   /\ c.ResponseTopic /\ c.ErrorTopic /\ c.HTTPEndpoint}

GateInit ==
  /\ cfg \in GateConfigs
  /\ env = [outcomes |-> {[resp |-> 200, err |-> FALSE]}, faults |-> FALSE,
            bodies |-> {<<1>>}]
  /\ pending = NumMsgs
  /\ InitState

\* The handler scenarios: one attempt per message, an endpoint that answers
\* 200 or 500 with any body, a broker and a response body that may fail.
HandlerConfigs == {c \in Configs : c.MaxRetries = 0}

HandlerInit ==
  /\ cfg \in HandlerConfigs
  /\ env = [outcomes |-> {[resp |-> 200, err |-> FALSE], [resp |-> 500, err |-> FALSE]},
            faults |-> TRUE, bodies |-> Bodies]
  /\ pending = PipelineMsgs
  /\ InitState

\* ------------------------------------------------- helpers (code conditions)
\* Off by one: one iteration too many.
LoopCond_OneMore(attempt, maxRetries) == attempt <= maxRetries + 1

\* for attempt := 0; attempt <= cfg.MaxRetries; attempt++
LoopCond(attempt, maxRetries) == attempt <= maxRetries

\* Lower bound taken exclusive.
IsSuccess_Above200(err, status) == ~err /\ status > 200 /\ status < 300

\* err == nil && resp.StatusCode >= 200 && resp.StatusCode < 300
IsSuccess(err, status) == ~err /\ status >= 200 /\ status < 300

\* resp.StatusCode < 200 || resp.StatusCode > 300
IsFinalFailure(status) == status < 200 \/ status > 300

\* A channel made one element too large.
CanSend_OneMore(len, cap) == len < cap + 1

\* A send on a channel of capacity cap holding len elements proceeds iff
\* there is room (no receiver ever waits on concurrentSem before a send).
CanSend(len, cap) == len < cap

\* The send left out: the goroutine is started without a slot.
SemAfterSend_NoSend(len) == len

\* conn.concurrentSem <- 1
SemAfterSend(len) == len + 1

\* The receive left out: the slot is kept.
SemAfterReceive_NoReceive(len) == len

\* <-conn.concurrentSem
SemAfterReceive(len) == len - 1

\* time.Second, in the unit of AckWait.
Second == 1

\* time.Minute, in the unit of AckWait.
Minute == 60

\* askWait of consumeMessage: conn.connectordata.AckWait in main.go,
\* time.Minute in the variant read from the environment.
AskWait(c) == IF c.Entry = "env" THEN Minute ELSE c.AckWait

\* The margin left out.
ConsumerConfig_NoMargin(c) ==
  [Durable |-> c.Consumer, AckPolicy |-> "explicit",
   FilterSubject |-> c.Topic \o ".input", AckWait |-> AskWait(c)]

\* jetstream.ConsumerConfig{Durable, AckPolicy, FilterSubject, AckWait}
ConsumerConfig(c) ==
  [Durable |-> c.Consumer, AckPolicy |-> "explicit",
   FilterSubject |-> c.Topic \o ".input", AckWait |-> AskWait(c) + Second]

\* The send is dropped whatever the buffer holds.
DoneAnySend_Dropped(n) == n

\* select { case g.doneAny <- struct{}{}: default: } on the channel made with
\* a buffer of one: the element is buffered, or dropped when one is there.
DoneAnySend(n) == IF n < 1 THEN n + 1 ELSE n

\* The cases of Main's first select that are ready.
StartupSelect(mainInit, mainErr, ctxDone) ==
  (IF mainInit THEN {"init"} ELSE {})
    \cup (IF mainErr THEN {"error"} ELSE {})
    \cup (IF ctxDone THEN {"cancelled"} ELSE {})

\* The error case only logs and Main returns.
StartupExit_ErrorReturns(case) ==
  IF case = "init" THEN NotExited ELSE IF case = "error" THEN 0 ELSE 1

\* What the chosen case does: go on, or os.Exit(1).
StartupExit(case) == IF case = "init" THEN NotExited ELSE 1

\* The contexts of the goroutines not derived from the root context.
CancelTasks_None(tasks) == tasks

\* cancel() of the root context reaches every context derived from it.
CancelTasks(tasks) ==
  [m \in Msgs |->
     IF tasks[m].pc \notin {"idle", "done", "panicked"}
     THEN [tasks[m] EXCEPT !.ctxDone = TRUE] ELSE tasks[m]]

\* The upper-case and the lower-case form of a character.
ToUpper(c) ==
  IF \E i \in 1..Len(LowerCase) : LowerCase[i] = c
  THEN UpperCase[CHOOSE i \in 1..Len(LowerCase) : LowerCase[i] = c] ELSE c

ToLower(c) ==
  IF \E i \in 1..Len(UpperCase) : UpperCase[i] = c
  THEN LowerCase[CHOOSE i \in 1..Len(UpperCase) : UpperCase[i] = c] ELSE c

\* textproto.CanonicalMIMEHeaderKey: the first letter and every letter after
\* a hyphen in upper case, the others in lower case.
CanonicalMIMEHeaderKey(key) ==
  [i \in 1..Len(key) |->
     IF i = 1 \/ key[i - 1] = "-" THEN ToUpper(key[i]) ELSE ToLower(key[i])]

\* The http.Header literal of handleHTTPRequest.
ConnectorHeaders(c) ==
  [k \in ConnectorKeys |->
     IF k = KeyTopic THEN <<c.Topic>>
     ELSE IF k = KeyRespTopic THEN <<IF c.ResponseTopic THEN "responses" ELSE "">>
     ELSE IF k = KeyErrorTopic THEN <<IF c.ErrorTopic THEN "errors" ELSE "">>
     ELSE IF k = KeyContentType THEN <<"application/json">>
     ELSE <<"source">>]

\* maps.Copy(dst, src): every key of src set in dst to the value in src.
MapsCopy(dst, src) ==
  [k \in DOMAIN dst \cup DOMAIN src |->
     IF k \in DOMAIN src THEN src[k] ELSE dst[k]]

\* req.Header.Add(key, val) for every val of vals: appended under the
\* canonical form of key.
HeaderAdd(h, key, vals) ==
  LET ck == CanonicalMIMEHeaderKey(key) IN
  [k \in DOMAIN h \cup (IF vals = << >> THEN {} ELSE {ck}) |->
     IF k = ck THEN (IF k \in DOMAIN h THEN h[k] ELSE << >>) \o vals ELSE h[k]]

\* The request not bound to the goroutine's context.
DoOutcomes_IgnoresCtx(ctxDone) == env.outcomes

\* What Do returns under the request's context: an already-cancelled context
\* fails the round trip before any response is read.
DoOutcomes(ctxDone) ==
  IF ctxDone THEN {[resp |-> Nil, err |-> TRUE]} ELSE env.outcomes

\* Whether a publish, a body read or an acknowledgement goes through.
IOResults == IF env.faults THEN BOOLEAN ELSE {TRUE}

\* resp kept from an earlier attempt when the call returns none.
NextResp_KeepLast(old, o) == IF o.resp = Nil THEN old ELSE o.resp

\* resp, err = http.DefaultClient.Do(req): resp is overwritten by every call.
NextResp(old, o) == o.resp

\* The check of ctx.Done() left out.
CtxSelect_NoCheck(ctxDone) == "ack"

\* select { case <-ctx.Done(): return; default: }
CtxSelect(ctxDone) == IF ctxDone THEN "release" ELSE "ack"

\* A skipped publish reported as success.
ResponseHandlerResult_SkipIsSuccess(topicSet, publishOK) == ~topicSet \/ publishOK

\* A failed publish reported as success.
ResponseHandlerResult_IgnoresError(topicSet, publishOK) == topicSet

\* responseHandler: FALSE when the topic is unset or the publish failed.
ResponseHandlerResult(topicSet, publishOK) == topicSet /\ publishOK

\* io.ReadAll(resp.Body) without error: every byte the endpoint sent.
ReadAll(sent) == sent

\* The response wrapped in an envelope.
PublishPayload_Enveloped(response) == <<0>> \o response

\* Publish(context.Background(), ResponseTopic, response): the bytes handed
\* to the broker.
PublishPayload(response) == response

\* The error handler invoked a second time for the same error.
ErrorCalls_Twice(n) == n + 2

\* conn.errorHandler(err) is called once where it is called.
ErrorCalls(n) == n + 1

\* What responseHandler did with the topic.
ResponsePublish(topicSet, publishOK) ==
  IF ~topicSet THEN "skipped" ELSE IF publishOK THEN "ok" ELSE "failed"

\* The topic test left out: a publish is made without an error topic.
ErrorPublish_NoTopicTest(topicSet, publishOK) ==
  IF publishOK THEN "ok" ELSE "failed"

\* errorHandler: what happened on the error topic.
ErrorPublish(topicSet, publishOK) ==
  IF ~topicSet THEN "skipped" ELSE IF publishOK THEN "ok" ELSE "failed"

\* The tail of HandleHTTPRequest after the loop.
AfterLoop(resp) ==
  IF resp = Nil THEN [kind |-> "noresp", code |-> Nil]
  ELSE IF IsFinalFailure(resp) THEN [kind |-> "status", code |-> resp]
  ELSE [kind |-> "ok", code |-> resp]

\* errorHandler(err) in a goroutine with locals t: nothing is published
\* without an error topic, otherwise one publish that may fail.
ErrorHandler(t, err, publishOK) ==
  [t EXCEPT !.errArg = err,
            !.errCalls = ErrorCalls(@),
            !.errPubs = IF cfg.ErrorTopic THEN @ + 1 ELSE @,
            !.errPub = ErrorPublish(cfg.ErrorTopic, publishOK)]

\* ---------------------------------------------------------------- actions
Set(m, t) == task' = [task EXCEPT ![m] = t]

\* The transport invokes the Consume callback with the next message; the
\* callback runs on one goroutine, so the next call waits for its return.
Deliver ==
  /\ svc.consuming
  /\ cb = "idle"
  /\ pending > 0
  /\ pending' = pending - 1
  /\ delivered' = delivered + 1
  /\ cb' = "send"
  /\ UNCHANGED <<graceful, cfg, env, hdr, svc, concurrentSem, rootDone, task, acked>>

\* conn.concurrentSem <- 1 proceeds, the goroutine is started and derives
\* goCtx from the root context; the callback returns.
Acquire ==
  /\ cb = "send"
  /\ CanSend(concurrentSem, cfg.Concurrent)
  /\ concurrentSem' = SemAfterSend(concurrentSem)
  /\ cb' = "idle"
  /\ Set(delivered, [NoTask EXCEPT !.pc = "http", !.ctxDone = rootDone,
                                   !.startedDone = rootDone,
                                   !.timeout = AskWait(cfg)])
  /\ UNCHANGED <<graceful, cfg, env, hdr, svc, pending, delivered, rootDone, acked>>

\* One iteration of the retry loop: build the request, send it.
Attempt(m) ==
  LET t == task[m] IN
  /\ t.pc = "http"
  /\ LoopCond(t.attempt, cfg.MaxRetries)
  /\ IF ~cfg.HTTPEndpoint
     THEN \* http.NewRequestWithContext fails: return nil, error
          Set(m, [t EXCEPT !.tries = @ + 1, !.pc = "failed",
                           !.result = [kind |-> "construct", code |-> Nil]])
     ELSE \E o \in DoOutcomes(t.ctxDone) :
            LET u == [t EXCEPT !.tries = @ + 1,
                               !.ctxAtTry = IF t.ctxDone THEN "done" ELSE "live",
                               !.resp = NextResp(t.resp, o),
                               !.lastOut = o.resp,
                               !.nilSeen = @ \/ o.resp = Nil,
                               !.lastResp = IF o.resp # Nil THEN o.resp ELSE @,
                               !.got2xxAt = IF @ = -1 /\ ~o.err /\ In2xx(o.resp)
                                            THEN t.attempt ELSE @]
            IN IF ~o.err /\ o.resp # Nil /\ IsSuccess(o.err, o.resp)
               THEN Set(m, [u EXCEPT !.pc = "read",
                                     !.result = [kind |-> "ok", code |-> o.resp]])
               ELSE Set(m, [u EXCEPT !.attempt = @ + 1])
  /\ UNCHANGED <<graceful, cfg, env, hdr, svc, pending, delivered, cb, concurrentSem, rootDone, acked>>

\* The loop is over: classify by resp.
LoopExit(m) ==
  LET t == task[m]
      r == AfterLoop(t.resp) IN
  /\ t.pc = "http"
  /\ ~LoopCond(t.attempt, cfg.MaxRetries)
  /\ Set(m, [t EXCEPT !.result = r,
                      !.pc = IF r.kind = "ok" THEN "read" ELSE "failed"])
  /\ UNCHANGED <<graceful, cfg, env, hdr, svc, pending, delivered, cb, concurrentSem, rootDone, acked>>

\* handleHTTPRequest, err != nil: errorHandler(err); return.
HandleFailure(m) ==
  LET t == task[m] IN
  /\ t.pc = "failed"
  /\ \E publishOK \in IOResults :
       Set(m, [ErrorHandler(t, t.result, publishOK) EXCEPT !.pc = "release"])
  /\ UNCHANGED <<graceful, cfg, env, hdr, svc, pending, delivered, cb, concurrentSem, rootDone, acked>>

\* io.ReadAll(resp.Body); on error errorHandler(err); return.
ReadBody(m) ==
  LET t == task[m] IN
  /\ t.pc = "read"
  /\ \/ \E b \in env.bodies :
          Set(m, [t EXCEPT !.read = "ok", !.sent = b, !.body = ReadAll(b),
                           !.pc = "respond"])
     \/ \E publishOK \in IOResults :
          /\ env.faults
          /\ Set(m, [ErrorHandler(t, [kind |-> "read", code |-> Nil], publishOK)
                       EXCEPT !.read = "failed", !.pc = "release"])
  /\ UNCHANGED <<graceful, cfg, env, hdr, svc, pending, delivered, cb, concurrentSem, rootDone, acked>>

\* success := conn.responseHandler(body); if !success { return }
Respond(m) ==
  LET t == task[m] IN
  /\ t.pc = "respond"
  /\ \E publishOK \in IOResults :
       Set(m, [t EXCEPT !.respPub = ResponsePublish(cfg.ResponseTopic, publishOK),
                        !.respPubs = IF cfg.ResponseTopic THEN @ + 1 ELSE @,
                        !.payload = IF cfg.ResponseTopic
                                    THEN PublishPayload(t.body) ELSE @,
                        !.pc = IF ResponseHandlerResult(cfg.ResponseTopic, publishOK)
                               THEN "check" ELSE "release"])
  /\ UNCHANGED <<graceful, cfg, env, hdr, svc, pending, delivered, cb, concurrentSem, rootDone, acked>>

\* The non-blocking select on ctx.Done().
CheckCtx(m) ==
  LET t == task[m] IN
  /\ t.pc = "check"
  /\ Set(m, [t EXCEPT !.ctxAtCheck = IF t.ctxDone THEN "done" ELSE "live",
                      !.pc = CtxSelect(t.ctxDone)])
  /\ UNCHANGED <<graceful, cfg, env, hdr, svc, pending, delivered, cb, concurrentSem, rootDone, acked>>

\* err = msg.Ack(); if err != nil { errorHandler(err) }
Ack(m) ==
  LET t == task[m] IN
  /\ t.pc = "ack"
  /\ \/ /\ acked' = [acked EXCEPT ![m] = "ok"]
        /\ Set(m, [t EXCEPT !.acks = @ + 1, !.pc = "release"])
     \/ /\ env.faults
        /\ acked' = [acked EXCEPT ![m] = "err"]
        /\ \E publishOK \in IOResults :
             Set(m, [ErrorHandler(t, [kind |-> "ack", code |-> Nil], publishOK)
                       EXCEPT !.acks = @ + 1, !.pc = "release"])
  /\ UNCHANGED <<graceful, cfg, env, hdr, svc, pending, delivered, cb, concurrentSem, rootDone>>

\* <-conn.concurrentSem, then the goroutine ends (deferred cancel()).
Release(m) ==
  /\ task[m].pc = "release"
  /\ concurrentSem > 0
  /\ concurrentSem' = SemAfterReceive(concurrentSem)
  /\ Set(m, EndedTask)
  /\ UNCHANGED <<graceful, cfg, env, hdr, svc, pending, delivered, cb, rootDone, acked>>

\* The per-message deadline (context.WithTimeout(ctx, askWait)) fires.
Expire(m) ==
  /\ task[m].pc \notin {"idle", "done"}
  /\ ~task[m].ctxDone
  /\ Set(m, [task[m] EXCEPT !.ctxDone = TRUE])
  /\ UNCHANGED <<graceful, cfg, env, hdr, svc, pending, delivered, cb, concurrentSem, rootDone, acked>>

\* The root context is cancelled (signal, or the harness' cancel()): every
\* context derived from it is cancelled with it.
RootCancel ==
  /\ ~rootDone
  /\ rootDone' = TRUE
  /\ task' = CancelTasks(task)
  /\ UNCHANGED <<graceful, cfg, env, hdr, svc, pending, delivered, cb, concurrentSem, acked>>

\* A panic inside handleHTTPRequest unwinds the goroutine: the deferred
\* cancel() runs, the receive from concurrentSem (not deferred) does not, and
\* the unrecovered panic ends the process.
Panic(m) ==
  /\ task[m].pc \in {"http", "failed", "read", "respond", "check", "ack"}
  /\ Set(m, [task[m] EXCEPT !.pc = "panicked", !.ctxDone = TRUE])
  /\ UNCHANGED <<graceful, cfg, env, hdr, svc, pending, delivered, cb, concurrentSem, rootDone, acked>>

\* The process is running: no goroutine has panicked.
Running == \A m \in Msgs : task[m].pc # "panicked"

\* ----------------------------------------------------- service start-up
\* mainErr up to the construction of conn: nats.Connect, jetstream.New.
Connect ==
  /\ svc.exit = NotExited /\ svc.fn = "connect"
  /\ \/ svc' = [svc EXCEPT !.fn = "register"]
     \/ svc' = [svc EXCEPT !.fn = "report", !.cause = "connect"]
  /\ UNCHANGED <<graceful, cfg, env, hdr, pending, delivered, cb, concurrentSem, rootDone, task, acked>>

\* base.AddGracefulService("consumer", run, nil): the stopper records the
\* service and starts the goroutine that runs consumeMessage.
AddGracefulService ==
  /\ svc.exit = NotExited /\ svc.fn = "register"
  /\ svc' = [svc EXCEPT !.fn = "listen", !.servers = @ + 1, !.run = "attach"]
  /\ UNCHANGED <<graceful, cfg, env, hdr, pending, delivered, cb, concurrentSem, rootDone, task, acked>>

\* base.ListenAndServe(nil, nil): close(mainInit), then wait for the root
\* context.
ListenAndServe ==
  /\ svc.exit = NotExited /\ svc.fn = "listen"
  /\ svc' = [svc EXCEPT !.fn = "blocked", !.mainInit = TRUE]
  /\ UNCHANGED <<graceful, cfg, env, hdr, pending, delivered, cb, concurrentSem, rootDone, task, acked>>

\* <-ctx.Done() in ListenAndServe returns; mainErr reads err, which the
\* consumer service writes, and returns it wrapped when it is not nil.
FnReturn ==
  /\ svc.exit = NotExited /\ svc.fn = "blocked"
  /\ rootDone
  /\ svc' = [svc EXCEPT !.fn = IF svc.err THEN "report" ELSE "cancel"]
  /\ UNCHANGED <<graceful, cfg, env, hdr, pending, delivered, cb, concurrentSem, rootDone, task, acked>>

\* Main's goroutine: err != nil, mainErr <- err (buffer of one, one sender).
FnReport ==
  /\ svc.exit = NotExited /\ svc.fn = "report"
  /\ svc' = [svc EXCEPT !.fn = "cancel", !.mainErr = TRUE]
  /\ UNCHANGED <<graceful, cfg, env, hdr, pending, delivered, cb, concurrentSem, rootDone, task, acked>>

\* Main's goroutine: cancel().
FnCancel ==
  /\ svc.exit = NotExited /\ svc.fn = "cancel"
  /\ svc' = [svc EXCEPT !.fn = "done"]
  /\ rootDone' = TRUE
  /\ task' = CancelTasks(task)
  /\ UNCHANGED <<graceful, cfg, env, hdr, pending, delivered, cb, concurrentSem, acked>>

\* consumeMessage: jsContext.Consumer(ctx, Topic, consumer).
Attach ==
  /\ svc.exit = NotExited /\ svc.run = "attach"
  /\ \/ svc' = [svc EXCEPT !.run = "consume", !.handle = "attached"]
     \/ svc' = [svc EXCEPT !.run = "create"]
  /\ UNCHANGED <<graceful, cfg, env, hdr, pending, delivered, cb, concurrentSem, rootDone, task, acked>>

\* consumeMessage: jsContext.CreateConsumer(ctx, Topic, jconf); on error
\* consumeMessage returns it and the service's run function stores it in err.
Create ==
  /\ svc.exit = NotExited /\ svc.run = "create"
  /\ \/ svc' = [svc EXCEPT !.run = "consume", !.handle = "created",
                            !.creates = @ + 1, !.conf = ConsumerConfig(cfg)]
     \/ svc' = [svc EXCEPT !.run = "notify", !.err = TRUE, !.cause = "create",
                            !.creates = @ + 1, !.conf = ConsumerConfig(cfg)]
  /\ UNCHANGED <<graceful, cfg, env, hdr, pending, delivered, cb, concurrentSem, rootDone, task, acked>>

\* consumeMessage: cs.Consume(callback); on error consumeMessage returns it.
Consume ==
  /\ svc.exit = NotExited /\ svc.run = "consume"
  /\ \/ svc' = [svc EXCEPT !.run = "wait", !.consuming = TRUE]
     \/ svc' = [svc EXCEPT !.run = "notify", !.err = TRUE, !.cause = "consume"]
  /\ UNCHANGED <<graceful, cfg, env, hdr, pending, delivered, cb, concurrentSem, rootDone, task, acked>>

\* consumeMessage: <-ctx.Done() returns, consumeMessage returns nil, which the
\* run function stores in err; the subscription is not stopped.
ConsumerReturn ==
  /\ svc.exit = NotExited /\ svc.run = "wait"
  /\ rootDone
  /\ svc' = [svc EXCEPT !.run = "notify", !.err = FALSE]
  /\ UNCHANGED <<graceful, cfg, env, hdr, pending, delivered, cb, concurrentSem, rootDone, task, acked>>

\* GracefulStopper.start, after run(): the send on doneAny, dropped when
\* its buffer of one is full.
NotifyDone ==
  /\ svc.exit = NotExited /\ svc.run = "notify"
  /\ svc' = [svc EXCEPT !.run = "done", !.doneAny = DoneAnySend(@)]
  /\ UNCHANGED <<graceful, cfg, env, hdr, pending, delivered, cb, concurrentSem, rootDone, task, acked>>

\* The run function of the api or of the metrics server returns
\* (httpSrv.ListenAndServe failed, or the server was shut down) and its
\* goroutine makes the send on doneAny.
ServerReturn ==
  /\ svc.exit = NotExited /\ svc.main \in {"serving", "shutdown", "final"}
  /\ svc.httpDown < 2
  /\ svc' = [svc EXCEPT !.httpDown = @ + 1, !.doneAny = DoneAnySend(@)]
  /\ UNCHANGED <<graceful, cfg, env, hdr, pending, delivered, cb, concurrentSem, rootDone, task, acked>>

\* Main's first select: mainInit, mainErr or ctx.Done(); after mainInit Main
\* starts the api and metrics servers.
MainStartup ==
  /\ svc.exit = NotExited /\ svc.main = "waitInit"
  /\ \E case \in StartupSelect(svc.mainInit, svc.mainErr, rootDone) :
       svc' = [svc EXCEPT !.main = IF case = "init" THEN "serving" ELSE "exited",
                          !.mainErr = IF case = "error" THEN FALSE ELSE @,
                          !.servers = IF case = "init" THEN @ + 2 ELSE @,
                          !.exit = StartupExit(case)]
  /\ UNCHANGED <<graceful, cfg, env, hdr, pending, delivered, cb, concurrentSem, rootDone, task, acked>>

\* Main's second select: ctx.Done(), or DoneAny() followed by cancel().
MainServe ==
  /\ svc.exit = NotExited /\ svc.main = "serving"
  /\ \/ /\ rootDone
        /\ svc' = [svc EXCEPT !.main = "shutdown"]
        /\ UNCHANGED <<rootDone, task>>
     \/ /\ svc.doneAny = 1
        /\ svc' = [svc EXCEPT !.main = "shutdown", !.doneAny = 0]
        /\ rootDone' = TRUE
        /\ task' = CancelTasks(task)
  /\ UNCHANGED <<graceful, cfg, env, hdr, pending, delivered, cb, concurrentSem, acked>>

\* graceful.ShutdownAll(shutdownCtx): every shutdown function is run (the
\* consumer's does nothing), the registry is emptied.
ShutdownAll ==
  /\ svc.exit = NotExited /\ svc.main = "shutdown"
  /\ svc' = [svc EXCEPT !.main = "final", !.servers = 0]
  /\ UNCHANGED <<graceful, cfg, env, hdr, pending, delivered, cb, concurrentSem, rootDone, task, acked>>

\* Main's last select: an error waiting in mainErr is logged; Main returns
\* and the process ends with status 0.
MainReturn ==
  /\ svc.exit = NotExited /\ svc.main = "final"
  /\ svc' = [svc EXCEPT !.main = "exited", !.logged = svc.mainErr,
                        !.mainErr = FALSE, !.exit = 0]
  /\ UNCHANGED <<graceful, cfg, env, hdr, pending, delivered, cb, concurrentSem, rootDone, task, acked>>

\* ------------------------------------------------------- request headers
\* handleHTTPRequest: the connector's headers, then maps.Copy of the
\* message's headers over them.
BuildHeaders ==
  /\ hdr.pc = "build"
  /\ LET h == MapsCopy(ConnectorHeaders(cfg), hdr.inbound) IN
       hdr' = [hdr EXCEPT !.pc = "add", !.headers = h, !.todo = DOMAIN h]
  /\ UNCHANGED <<graceful, cfg, env, svc, pending, delivered, cb, concurrentSem, rootDone, task, acked>>

\* HandleHTTPRequest: one round of "for key, vals := range headers", which
\* visits the keys of the map in an order the runtime chooses.
AddHeader ==
  /\ hdr.pc = "add"
  /\ \E key \in hdr.todo :
       hdr' = [hdr EXCEPT !.req = HeaderAdd(@, key, hdr.headers[key]),
                          !.todo = @ \ {key}]
  /\ UNCHANGED <<graceful, cfg, env, svc, pending, delivered, cb, concurrentSem, rootDone, task, acked>>

\* HandleHTTPRequest: every key was visited, the request is sent.
SendRequest ==
  /\ hdr.pc = "add" /\ hdr.todo = {}
  /\ hdr' = [hdr EXCEPT !.pc = "sent"]
  /\ UNCHANGED <<graceful, cfg, env, svc, pending, delivered, cb, concurrentSem, rootDone, task, acked>>

Next ==
  \/ Deliver
  \/ Acquire
  \/ \E m \in Msgs : Attempt(m)
  \/ \E m \in Msgs : LoopExit(m)
  \/ \E m \in Msgs : HandleFailure(m)
  \/ \E m \in Msgs : ReadBody(m)
  \/ \E m \in Msgs : Respond(m)
  \/ \E m \in Msgs : CheckCtx(m)
  \/ \E m \in Msgs : Ack(m)
  \/ \E m \in Msgs : Release(m)
  \/ \E m \in Msgs : Expire(m)
  \/ RootCancel

Spec == Init /\ [][Next]_vars

GateSpec == GateInit /\ [][Next]_vars

HandlerSpec == HandlerInit /\ [][Next]_vars

\* The headers of one message with any inbound header map, from the
\* handler's header literal to the request that is sent.
HeaderConfigs ==
  {c \in Configs : c.MaxRetries = 0 /\ c.Concurrent = 1 /\ c.HTTPEndpoint}

HeaderInit ==
  /\ cfg \in HeaderConfigs
  /\ env = [outcomes |-> {[resp |-> 200, err |-> FALSE]}, faults |-> FALSE,
            bodies |-> {<<1>>}]
  /\ svc = ServingSvc
  /\ hdr \in {[NoHdr EXCEPT !.pc = "build", !.inbound = h] : h \in InboundHeaders}
  /\ pending = 0
  /\ delivered = 0
  /\ cb = "idle"
  /\ concurrentSem = 0
  /\ rootDone = FALSE
  /\ task = [m \in Msgs |-> NoTask]
  /\ acked = [m \in Msgs |-> "none"]
  /\ graceful = NoStopper

HeaderNext ==
  \/ BuildHeaders
  \/ AddHeader
  \/ SendRequest

HeaderSpec == HeaderInit /\ [][HeaderNext]_vars

\* The service from the start of Main: one consumer service, a broker that
\* may refuse any call, the pipeline running once the consumer consumes and
\* until the process exits.
StartConfigs ==
  {[c EXCEPT !.AckWait = w] :
     c \in {d \in Configs : /\ d.MaxRetries = 0 /\ d.Concurrent = 1
                            /\ d.ResponseTopic /\ d.ErrorTopic /\ d.HTTPEndpoint},
     w \in AckWaits}

StartInit ==
  /\ cfg \in StartConfigs
  /\ env = [outcomes |-> {[resp |-> 200, err |-> FALSE]}, faults |-> FALSE,
            bodies |-> {<<1>>}]
  /\ svc = StartSvc
  /\ hdr = NoHdr
  /\ pending = PipelineMsgs
  /\ delivered = 0
  /\ cb = "idle"
  /\ concurrentSem = 0
  /\ rootDone = FALSE
  /\ task = [m \in Msgs |-> NoTask]
  /\ acked = [m \in Msgs |-> "none"]
  /\ graceful = NoStopper

StartNext ==
  \/ Connect
  \/ AddGracefulService
  \/ ListenAndServe
  \/ FnReturn
  \/ FnReport
  \/ FnCancel
  \/ Attach
  \/ Create
  \/ Consume
  \/ ConsumerReturn
  \/ NotifyDone
  \/ MainStartup
  \/ MainServe
  \/ ShutdownAll
  \/ MainReturn
  \/ svc.exit = NotExited /\ Next

StartSpec == StartInit /\ [][StartNext]_vars

\* A gate of one or two slots.
ShutdownConfigs == {c \in GateConfigs : c.Concurrent \in 1..2}

\* The service up and consuming, from there to the end of the process: the
\* steps of StartNext that can follow.
ShutdownInit ==
  /\ cfg \in ShutdownConfigs
  /\ env = [outcomes |-> {[resp |-> 200, err |-> FALSE]}, faults |-> FALSE,
            bodies |-> {<<1>>}]
  /\ pending = ShutdownMsgs
  /\ InitState

ShutdownNext ==
  \/ FnReturn
  \/ FnCancel
  \/ ConsumerReturn
  \/ NotifyDone
  \/ MainServe
  \/ ShutdownAll
  \/ MainReturn
  \/ svc.exit = NotExited /\ Next

\* Both entry points with every ACKWAIT, from the start of the consumer
\* service (Main is serving, consumeMessage begins) to the end of the process.
EntryConfigs ==
  {[c EXCEPT !.Entry = e, !.AckWait = w] :
     c \in {d \in Configs : /\ d.MaxRetries = 0 /\ d.Concurrent = 1
                            /\ d.ResponseTopic /\ d.ErrorTopic /\ d.HTTPEndpoint},
     e \in {"main", "env"}, w \in AckWaits}

EntryInit ==
  /\ cfg \in EntryConfigs
  /\ env = [outcomes |-> {[resp |-> 200, err |-> FALSE]}, faults |-> FALSE,
            bodies |-> {<<1>>}]
  /\ svc = [ServingSvc EXCEPT !.run = "attach", !.handle = "none",
                              !.consuming = FALSE]
  /\ hdr = NoHdr
  /\ pending = PipelineMsgs
  /\ delivered = 0
  /\ cb = "idle"
  /\ concurrentSem = 0
  /\ rootDone = FALSE
  /\ task = [m \in Msgs |-> NoTask]
  /\ acked = [m \in Msgs |-> "none"]
  /\ graceful = NoStopper

EntryNext ==
  \/ Attach
  \/ Create
  \/ Consume
  \/ ShutdownNext

EntrySpec == EntryInit /\ [][EntryNext]_vars

\* The Go scheduler runs every runnable goroutine of the service.
StartFairSpec ==
  /\ StartInit /\ [][StartNext]_vars
  /\ WF_vars(Connect) /\ WF_vars(AddGracefulService) /\ WF_vars(ListenAndServe)
  /\ WF_vars(FnReturn) /\ WF_vars(FnReport) /\ WF_vars(FnCancel)
  /\ WF_vars(Attach) /\ WF_vars(Create) /\ WF_vars(Consume)
  /\ WF_vars(ConsumerReturn) /\ WF_vars(NotifyDone)
  /\ WF_vars(MainStartup) /\ WF_vars(MainServe) /\ WF_vars(ShutdownAll)
  /\ WF_vars(MainReturn)

\* The pipeline with a handler that may panic; nothing runs after a panic.
PanicNext ==
  \/ Running /\ Next
  \/ \E m \in Msgs : Running /\ Panic(m)

\* The Go scheduler runs every runnable goroutine: a handling goroutine
\* takes its next step, and a send that stays possible is performed.
TaskStep(m) ==
  \/ Attempt(m) \/ LoopExit(m) \/ HandleFailure(m) \/ ReadBody(m)
  \/ Respond(m) \/ CheckCtx(m) \/ Ack(m) \/ Release(m)

GateFairSpec ==
  /\ GateInit /\ [][Next]_vars
  /\ WF_vars(Acquire)
  /\ \A m \in Msgs : WF_vars(TaskStep(m))

HandlerFairSpec ==
  /\ HandlerInit /\ [][Next]_vars
  /\ WF_vars(Acquire)
  /\ \A m \in Msgs : WF_vars(TaskStep(m))

PanicFairSpec ==
  /\ HandlerInit /\ [][PanicNext]_vars
  /\ WF_vars(Running /\ Acquire)
  /\ \A m \in Msgs : WF_vars(Running /\ TaskStep(m))

ShutdownFairSpec ==
  /\ ShutdownInit /\ [][ShutdownNext]_vars
  /\ WF_vars(FnReturn) /\ WF_vars(FnCancel)
  /\ WF_vars(ConsumerReturn) /\ WF_vars(NotifyDone)
  /\ WF_vars(MainServe) /\ WF_vars(ShutdownAll) /\ WF_vars(MainReturn)
  /\ WF_vars(svc.exit = NotExited /\ Acquire)
  /\ \A m \in Msgs : WF_vars(svc.exit = NotExited /\ TaskStep(m))

\* ------------------------------------------------------------- vocabulary
\* handleHTTPRequest has returned in goroutine m (its slot is not yet released).
Returned(m) == task[m].pc = "release"

\* HandleHTTPRequest has returned in goroutine m.
HTTPReturned(m) == task[m].result.kind # "none"

\* The retry loop of goroutine m ran out of attempts (no return inside it).
Exhausted(m) == HTTPReturned(m) /\ task[m].attempt > cfg.MaxRetries

\* msg.Ack() was called for delivery m.
AckIssued(m) == acked[m] # "none"

\* Goroutines that hold a slot of concurrentSem.
Holders == {m \in Msgs : task[m].pc \notin {"idle", "done"}}

\* ------------------------------------------------------------------ C1
\* C1 as stated: when the first 2xx response arrives on attempt k and the
\* per-message deadline has not been exceeded, the handler made exactly k+1
\* attempts and acknowledged the message.
C1_AsStated ==
  \A m \in Msgs :
    (Returned(m) /\ task[m].got2xxAt >= 0 /\ ~task[m].ctxDone)
      => (task[m].tries = task[m].got2xxAt + 1 /\ AckIssued(m))

\* C1 amended: when the first 2xx response arrives on attempt k the handler
\* made exactly k+1 attempts, and it acknowledged the message if the deadline
\* has not been exceeded and the response body was read and published to the
\* configured response topic.
C1_FirstSuccessEndsRetries ==
  \A m \in Msgs :
    (Returned(m) /\ task[m].got2xxAt >= 0)
      => /\ task[m].tries = task[m].got2xxAt + 1
         /\ (~task[m].ctxDone /\ task[m].respPub = "ok") => AckIssued(m)

\* Scenario A generalised: failures on all attempts but the last, then 2xx:
\* MaxRetriesBound + 1 requests, response published, message acknowledged.
C1_Witness ==
  \E m \in Msgs :
    /\ Returned(m) /\ cfg.MaxRetries = MaxRetriesBound
    /\ task[m].got2xxAt = MaxRetriesBound /\ task[m].tries = MaxRetriesBound + 1
    /\ task[m].respPub = "ok" /\ acked[m] = "ok"

\* ------------------------------------------------------------------ C2
\* C2: when every attempt 0..max_retries obtained a response with a status
\* outside [200,300), the failure is routed to the error topic (published when
\* an error topic is configured) and the message is not acknowledged.
C2_AllNon2xxNeverAcked ==
  \A m \in Msgs :
    (/\ Returned(m) /\ cfg.MaxRetries >= 0
     /\ task[m].tries = cfg.MaxRetries + 1 /\ task[m].result.kind # "construct"
     /\ ~task[m].nilSeen /\ task[m].got2xxAt = -1)
      => /\ task[m].errArg.kind = "status"
         /\ cfg.ErrorTopic => task[m].errPub \in {"ok", "failed"}
         /\ ~AckIssued(m)

\* ------------------------------------------------------------------ C3
\* C3: HandleHTTPRequest never returns a response with status 300 as its
\* successful result.
C3_Status300IsFailure ==
  \A m \in Msgs : ~(task[m].result.kind = "ok" /\ task[m].result.code = 300)

\* ------------------------------------------------------------------ C4
\* C4 as stated: once the per-message context is cancelled, no acknowledgement
\* is issued any more, wherever the cancellation lands before msg.Ack().
C4_AsStated ==
  [][\A m \in Msgs :
       (task[m].ctxDone /\ acked[m] = "none") => acked'[m] = "none"]_vars

\* C4 amended: a context that is cancelled before the ctx.Done() check is
\* evaluated keeps the message unacknowledged: from such a state the goroutine
\* neither acknowledges nor passes the check.
C4_CancelBeforeCheckNeverAcks ==
  [][\A m \in Msgs :
       (task[m].ctxDone /\ task[m].pc # "ack")
         => (acked'[m] = acked[m] /\ task'[m].pc # "ack")]_vars

\* The HTTP call succeeded, the response is published, the check found the
\* context cancelled and the message is unacknowledged.
C4_Witness ==
  \E m \in Msgs :
    /\ Returned(m) /\ task[m].result.kind = "ok" /\ task[m].respPub = "ok"
    /\ task[m].ctxAtCheck = "done" /\ ~AckIssued(m)

\* ------------------------------------------------------------------ C5
\* C5: the goroutines holding a slot never outnumber the capacity of the
\* semaphore.
C5_GateBound == Cardinality(Holders) <= cfg.Concurrent

\* The gate is full at the largest capacity while a further delivery waits.
C5_Witness ==
  /\ cfg.Concurrent = MaxConcurrent
  /\ Cardinality(Holders) = MaxConcurrent
  /\ cb = "send"

\* ------------------------------------------------------------------ C6
\* C6: while the semaphore is full no goroutine is started, and a callback
\* blocked on a semaphore of non-zero capacity eventually starts its
\* goroutine (handling goroutines terminate).
C6_BlockedUntilRelease ==
  /\ [][concurrentSem = cfg.Concurrent
          => \A m \in Msgs : task[m].pc = "idle" => task'[m].pc = "idle"]_vars
  /\ \A m \in Msgs :
       (cb = "send" /\ delivered = m /\ cfg.Concurrent > 0)
         ~> (task[m].pc # "idle")

\* Scenario D: capacity MaxConcurrent, all slots held by the first
\* deliveries, the next delivery waits at the send and has no goroutine.
C6_Witness ==
  /\ cfg.Concurrent = MaxConcurrent /\ concurrentSem = MaxConcurrent
  /\ cb = "send" /\ delivered = MaxConcurrent + 1
  /\ task[delivered].pc = "idle"
  /\ \A m \in 1..MaxConcurrent : task[m].pc \notin {"idle", "done"}

\* ------------------------------------------------------------------ C7
\* C7 as stated: without a response topic a 200 within the deadline is
\* followed by no publish and by the acknowledgement.
C7_AsStated ==
  \A m \in Msgs :
    (/\ Returned(m) /\ ~cfg.ResponseTopic /\ ~task[m].ctxDone
     /\ task[m].result = [kind |-> "ok", code |-> 200] /\ task[m].read = "ok")
      => (task[m].respPub = "skipped" /\ AckIssued(m))

\* C7 amended: without a response topic a successful request is followed by
\* no publish and the message is left unacknowledged.
C7_NoTopicNoAck ==
  \A m \in Msgs :
    (/\ Returned(m) /\ ~cfg.ResponseTopic
     /\ task[m].result.kind = "ok" /\ task[m].read = "ok")
      => (task[m].respPub = "skipped" /\ ~AckIssued(m))

\* Scenario C: no response topic, 200 within the deadline.
C7_Witness ==
  \E m \in Msgs :
    /\ Returned(m) /\ ~cfg.ResponseTopic /\ ~task[m].ctxDone
    /\ task[m].result = [kind |-> "ok", code |-> 200] /\ task[m].read = "ok"
    /\ task[m].respPub = "skipped"

\* ------------------------------------------------------------------ C8
\* C8 as stated: every acknowledgement is issued in a state where the
\* deadline has not elapsed and the response was published.
C8_AsStated ==
  [][\A m \in Msgs :
       (acked[m] = "none" /\ acked'[m] # "none")
         => (~task[m].ctxDone /\ task[m].respPub = "ok")]_vars

\* C8 amended: a message is acknowledged only by a goroutine whose response
\* publish succeeded and whose ctx.Done() check found the context live
\* (looked at while the acknowledging goroutine still exists).
C8_AckOnlyAfterRoutingAndCheck ==
  \A m \in Msgs :
    (AckIssued(m) /\ task[m].pc # "done")
      => (task[m].respPub = "ok" /\ task[m].ctxAtCheck = "live")

\* An acknowledged message: published, checked live.
C8_Witness ==
  \E m \in Msgs :
    /\ Returned(m) /\ acked[m] = "ok"
    /\ task[m].ctxAtCheck = "live" /\ task[m].respPub = "ok"

\* ------------------------------------------------------------------ C9
\* C9 as stated: the failure after exhausted retries is "no response" only if
\* no attempt obtained a response, otherwise "final status" with the status of
\* the last response obtained.
C9_AsStated ==
  \A m \in Msgs :
    (Exhausted(m) /\ task[m].result.kind \in {"noresp", "status"})
      => IF task[m].lastResp = Nil
         THEN task[m].result.kind = "noresp"
         ELSE task[m].result = [kind |-> "status", code |-> task[m].lastResp]

\* C9 amended: the failure after exhausted retries is decided by the final
\* attempt alone: "no response" iff the final attempt obtained no response,
\* otherwise "final status" with the final attempt's status.
C9_FinalAttemptDecides ==
  \A m \in Msgs :
    (Exhausted(m) /\ task[m].result.kind \in {"noresp", "status"})
      => IF task[m].lastOut = Nil
         THEN task[m].result.kind = "noresp"
         ELSE task[m].result = [kind |-> "status", code |-> task[m].lastOut]

\* Scenario B: max_retries = 1, the last response is 500: 2 requests, final
\* status 500 published to the error topic, no acknowledgement.
C9_Witness ==
  \E m \in Msgs :
    /\ Returned(m) /\ cfg.MaxRetries = 1 /\ task[m].tries = 2
    /\ ~task[m].nilSeen
    /\ task[m].errArg = [kind |-> "status", code |-> 500]
    /\ task[m].errPub = "ok" /\ ~AckIssued(m)

\* ------------------------------------------------------------------ C10
\* C10: a message never gets more than max_retries + 1 attempts, and with
\* max_retries = 0 it has had exactly one when HandleHTTPRequest returns.
C10_AttemptBound ==
  \A m \in Msgs :
    /\ task[m].tries <= (IF cfg.MaxRetries < 0 THEN 0 ELSE cfg.MaxRetries + 1)
    /\ (cfg.MaxRetries = 0 /\ HTTPReturned(m)) => task[m].tries = 1

\* max_retries = 0, one attempt that did not succeed, handler returned.
C10_Witness ==
  \E m \in Msgs :
    /\ Returned(m) /\ cfg.MaxRetries = 0 /\ task[m].tries = 1
    /\ task[m].result.kind = "status"

\* ------------------------------------------------------------------ C11
\* C11: after a successful request and body read with a response topic
\* configured, one publish to the response topic has been made whose payload is
\* exactly the bytes the endpoint sent, and an acknowledgement is issued only
\* after that publish.
C11_RawBodyPublishedBeforeAck ==
  \A m \in Msgs :
    LET t == task[m] IN
    /\ (cfg.ResponseTopic /\ t.read = "ok" /\ t.pc \in {"check", "ack", "release"})
         => /\ t.respPub \in {"ok", "failed"}
            /\ t.respPubs = 1
            /\ t.payload = t.sent
    /\ (cfg.ResponseTopic /\ AckIssued(m) /\ t.pc # "done")
         => (t.respPub = "ok" /\ t.payload = t.sent)
    /\ t.pc \in {"idle", "http", "failed", "read", "respond"} => ~AckIssued(m)

\* A two-byte body was published as it was sent and the message acknowledged.
C11_Witness ==
  \E m \in Msgs :
    /\ Returned(m) /\ cfg.ResponseTopic /\ acked[m] = "ok"
    /\ task[m].sent = <<1, 0>> /\ task[m].payload = <<1, 0>>
    /\ task[m].respPubs = 1

\* ------------------------------------------------------------------ C12
\* Exhausted retries without any 2xx response, a request that could not be
\* built, or a body that could not be read.
TerminalFailure(m) ==
  \/ task[m].tries > 0 /\ ~cfg.HTTPEndpoint
  \/ /\ cfg.HTTPEndpoint /\ cfg.MaxRetries >= 0
     /\ task[m].tries = cfg.MaxRetries + 1 /\ task[m].got2xxAt = -1
  \/ task[m].read = "failed"

\* C12: a message whose handling ended in a terminal failure was handed to
\* errorHandler once (one publish when an error topic is configured, none
\* otherwise), got no more than max_retries + 1 attempts, and was not
\* acknowledged.
C12_TerminalFailureNeverAcked ==
  \A m \in Msgs :
    (Returned(m) /\ TerminalFailure(m))
      => /\ task[m].errCalls = 1
         /\ task[m].errPubs = (IF cfg.ErrorTopic THEN 1 ELSE 0)
         /\ task[m].tries <= cfg.MaxRetries + 1
         /\ ~AckIssued(m)

\* ------------------------------------------------------------------ C13
\* C13: when msg.Ack() returned an error, errorHandler was called once with
\* that error (one publish when an error topic is configured, none otherwise),
\* and the goroutine goes on to receive from the gate, which gives one slot
\* back, and ends.
C13_AckErrorRoutedAndReleased ==
  /\ [](\A m \in Msgs :
          (acked[m] = "err" /\ task[m].pc # "done")
            => /\ task[m].pc = "release"
               /\ task[m].errArg.kind = "ack" /\ task[m].errCalls = 1
               /\ task[m].errPub \in {"ok", "failed", "skipped"}
               /\ task[m].errPub = "skipped" <=> ~cfg.ErrorTopic
               /\ m \in Holders /\ concurrentSem > 0)
  /\ [][\A m \in Msgs :
          (acked[m] = "err" /\ task[m].pc = "release" /\ task'[m].pc # "release")
            => (task'[m].pc = "done" /\ concurrentSem' = concurrentSem - 1)]_vars
  /\ \A m \in Msgs : (acked[m] = "err") ~> (task[m].pc = "done")

\* An acknowledgement failed, with and without an error topic.
C13_Witness ==
  \E m \in Msgs :
    /\ Returned(m) /\ acked[m] = "err" /\ task[m].errArg.kind = "ack"
    /\ task[m].errPub \in {"ok", "skipped"}

\* ------------------------------------------------------------------ C14
\* C14 as stated: a failed publish is made once and leaves the final state as
\* a successful one would: a response published under a live deadline ends
\* acknowledged whether or not the publish failed, and an error published for
\* a failed request ends unacknowledged whether or not the publish failed.
C14_AsStated ==
  \A m \in Msgs :
    Returned(m)
      => /\ task[m].respPubs <= 1 /\ task[m].errPubs <= 1
         /\ (task[m].respPub \in {"ok", "failed"} /\ ~task[m].ctxDone)
              => AckIssued(m)
         /\ (task[m].errPub \in {"ok", "failed"} /\ task[m].errArg.kind # "ack")
              => ~AckIssued(m)

\* C14 amended: a failed publish is made once and errorHandler is not called
\* for it; a failed publish to the error topic leaves the message as a
\* successful one does, but a failed publish to the response topic leaves the
\* message unacknowledged where a successful one under a live deadline ends
\* acknowledged.
C14_FailedResponsePublishBlocksAck ==
  \A m \in Msgs :
    Returned(m)
      => /\ task[m].respPubs <= 1 /\ task[m].errPubs <= 1
         /\ task[m].respPub = "failed"
              => (~AckIssued(m) /\ task[m].errCalls = 0)
         /\ (task[m].respPub = "ok" /\ ~task[m].ctxDone) => AckIssued(m)
         /\ (task[m].errPub \in {"ok", "failed"} /\ task[m].errArg.kind # "ack")
              => ~AckIssued(m)

\* The publish to the response topic failed under a live deadline.
C14_Witness ==
  \E m \in Msgs :
    /\ Returned(m) /\ task[m].respPub = "failed" /\ ~task[m].ctxDone
    /\ task[m].respPubs = 1 /\ ~AckIssued(m)

\* ------------------------------------------------------------------ C19
\* The goroutine of m is over, by return or by panic.
Terminated(m) == task[m].pc \in {"done", "panicked"}

C20_AcquireBeforeSpawn ==
  /\ [](cb = "send" => (delivered \in Msgs /\ task[delivered].pc = "idle"))
  /\ [](\A m \in Msgs : task[m].pc # "idle" => m <= delivered)
  /\ [](Cardinality(Holders) <= concurrentSem)
  /\ [][\A m \in Msgs :
          (task[m].pc = "idle" /\ task'[m].pc # "idle")
            => /\ cb = "send" /\ m = delivered /\ cb' = "idle"
               /\ concurrentSem < cfg.Concurrent
               /\ concurrentSem' = concurrentSem + 1]_vars
  /\ [][(cb = "send" /\ cb' = "idle")
          => (task[delivered].pc = "idle" /\ task'[delivered].pc = "http"
              /\ concurrentSem' = concurrentSem + 1)]_vars
  /\ [][delivered' # delivered => (cb = "idle" /\ cb' = "send")]_vars
  /\ [][(cb = "send" /\ concurrentSem = cfg.Concurrent /\ concurrentSem' = concurrentSem)
          => (cb' = "send" /\ delivered' = delivered /\ pending' = pending)]_vars

\* The gate is full, the callback waits on its send with a message still to
\* be delivered, and goroutines exist for the earlier messages only.
C20_Witness ==
  /\ cb = "send" /\ cfg.Concurrent > 0 /\ concurrentSem = cfg.Concurrent
  /\ pending > 0 /\ task[delivered].pc = "idle"
  /\ \A m \in 1..(delivered - 1) : task[m].pc # "idle"

\* ------------------------------------------------------------------ C15
\* C15: an attached consumer means no create was attempted; a failed attach
\* is followed by one create, whose configuration is durable = consumer name,
\* explicit acknowledgement, filter subject <topic>.input and ack-wait =
\* AckWait + 1 s; messages are consumed only with a handle from one of the two.
C15_ConsumerResolution ==
  /\ svc.creates <= 1
  /\ svc.handle = "attached" => (svc.creates = 0 /\ svc.conf = NoConf)
  /\ (svc.run \notin {"none", "attach", "create"} /\ svc.handle # "attached")
       => svc.creates = 1
  /\ svc.creates = 1
       => svc.conf = [Durable |-> cfg.Consumer, AckPolicy |-> "explicit",
                      FilterSubject |-> "orders.input",
                      AckWait |-> cfg.AckWait + 1]
  /\ svc.handle = "created" => svc.creates = 1
  /\ (svc.consuming \/ delivered > 0) => svc.handle \in {"attached", "created"}
  /\ delivered > 0 => svc.consuming

\* The attach failed, the consumer was created with ack-wait 31 s and a
\* message was delivered.
C15_Witness ==
  /\ svc.handle = "created" /\ svc.creates = 1 /\ svc.consuming
  /\ cfg.AckWait = 30 /\ svc.conf.AckWait = 31
  /\ svc.conf.FilterSubject = "orders.input"
  /\ delivered = 1

\* ------------------------------------------------------------------ C16
\* C16: after CreateConsumer failed no message is consumed, and the process
\* ends with a non-zero status through the error case of Main's start-up
\* select.
C16_CreateFailureExitsNonZero ==
  svc.cause = "create"
    => /\ ~svc.consuming /\ delivered = 0
       /\ svc.exit \in {NotExited, 1}
       /\ ~svc.logged

\* ------------------------------------------------------------------ C17
\* C17: after nats.Connect failed nothing is registered with the graceful
\* stopper and mainInit stays open, the error is sent on mainErr and the root
\* context cancelled, and Main exits with status 1 whichever of the two its
\* select takes.
C17_ConnectFailureAbortsStartup ==
  /\ [](svc.cause = "connect"
          => /\ svc.servers = 0 /\ svc.run = "none" /\ ~svc.mainInit
             /\ ~svc.consuming /\ delivered = 0
             /\ svc.main \in {"waitInit", "exited"}
             /\ svc.exit \in {NotExited, 1}
             /\ (svc.fn = "done" => rootDone))
  /\ (svc.cause = "connect") ~> (svc.exit = 1)

\* The connection failed, the error was sent and the context cancelled, and
\* Main left through the ctx.Done() case: the error is still in the channel.
C17_Witness ==
  /\ svc.cause = "connect" /\ svc.exit = 1
  /\ svc.fn = "done" /\ svc.mainErr /\ rootDone

\* ------------------------------------------------------------------ C18
\* The keys of the message's headers that name the header c of the request.
Overriding(c) ==
  {k \in DOMAIN hdr.inbound :
     CanonicalMIMEHeaderKey(k) = CanonicalMIMEHeaderKey(c)}

\* C18: the request sent has each of the five connector headers; one that no
\* key of the message names, in whatever letter case, carries the connector's
\* single value, and one that a key of the message names carries the values
\* of the message and nothing else.
C18_InboundReplaces ==
  hdr.pc = "sent"
    => \A c \in ConnectorKeys :
         LET name == CanonicalMIMEHeaderKey(c) IN
         /\ name \in DOMAIN hdr.req
         /\ Overriding(c) = {} => hdr.req[name] = ConnectorHeaders(cfg)[c]
         /\ \A k \in Overriding(c) :
              Overriding(c) = {k} => hdr.req[name] = hdr.inbound[k]
         /\ Overriding(c) # {}
              => \A i \in 1..Len(hdr.req[name]) :
                   hdr.req[name][i] \in {"x", "y"}

\* ------------------------------------------------------------------ C21
\* C21: an attempt made after the goroutine's context was done got no
\* response and was not the success that ends the loop; the context is still
\* done afterwards, whatever the number of attempts; HandleHTTPRequest
\* returns the "no response" failure and the message is not acknowledged.
C21_NoSuccessAfterDeadline ==
  \A m \in Msgs :
    task[m].ctxAtTry = "done"
      => /\ task[m].ctxDone
         /\ task[m].lastOut = Nil /\ task[m].resp = Nil
         /\ task[m].pc \in {"http", "failed", "release"}
         /\ task[m].result.kind \in {"none", "noresp"}
         /\ HTTPReturned(m) => task[m].result.kind = "noresp"
         /\ Returned(m) => task[m].errArg.kind = "noresp"
         /\ ~AckIssued(m)

\* max_retries = 2: the first attempt was answered 500 under a live
\* deadline, the deadline fired, the two attempts left got nothing, and the
\* handler returned without an acknowledgement.
C21_Witness ==
  \E m \in Msgs :
    /\ Returned(m) /\ cfg.MaxRetries = 2 /\ task[m].tries = 3
    /\ task[m].ctxAtTry = "done" /\ task[m].lastResp = 500
    /\ ~task[m].startedDone
    /\ task[m].errArg.kind = "noresp" /\ ~AckIssued(m)

\* ------------------------------------------------------------------ C22
\* The goroutine of m is running.
InFlight(m) == task[m].pc \notin {"idle", "done"}

\* C22 as stated: once the root context is cancelled every goroutine that is
\* running gets to its end.
C22_AsStated ==
  \A m \in Msgs : (rootDone /\ InFlight(m)) ~> (task[m].pc = "done")

\* C22 amended: the root context's cancellation is the cancellation of the
\* context of every running goroutine; an attempt made under it is aborted
\* without a response; a goroutine that saw the cancellation, in an attempt
\* or in its check before msg.Ack(), does not acknowledge; and every running
\* goroutine gets to its end, giving one slot back, unless the process exits
\* first.
C22_CancelReachesTasks ==
  /\ [](rootDone => \A m \in Msgs : InFlight(m) => task[m].ctxDone)
  /\ [](\A m \in Msgs :
          (task[m].ctxAtTry = "done" \/ task[m].ctxAtCheck = "done")
            => (~AckIssued(m) /\ task[m].acks = 0))
  /\ [](\A m \in Msgs : task[m].ctxAtTry = "done" => task[m].lastOut = Nil)
  /\ [][\A m \in Msgs :
          (InFlight(m) /\ task'[m].pc = "done")
            => concurrentSem' = concurrentSem - 1]_vars
  /\ \A m \in Msgs :
       (rootDone /\ InFlight(m)) ~> (task[m].pc = "done" \/ svc.exit # NotExited)

\* The root context was cancelled with two goroutines running: one has ended
\* without an acknowledgement, the other, cancelled, was still running when
\* Main returned.
C22_Witness ==
  /\ rootDone /\ svc.exit = 0
  /\ \E m \in Msgs : task[m].pc = "done" /\ acked[m] = "none"
  /\ \E m \in Msgs : InFlight(m) /\ task[m].ctxDone /\ ~task[m].startedDone

\* ------------------------------------------------------------------ C23
\* C23: the timeout of every goroutine's context is the configured ACKWAIT,
\* the ack-wait of a consumer that was created is ACKWAIT + 1 s, and so the
\* first is below the second.
C23_DeadlineIsAckWait ==
  /\ \A m \in Msgs : InFlight(m) => task[m].timeout = cfg.AckWait
  /\ svc.creates = 1 => svc.conf.AckWait = cfg.AckWait + 1
  /\ \A m \in Msgs :
       (InFlight(m) /\ svc.creates = 1) => task[m].timeout < svc.conf.AckWait

\* ------------------------------------------------------------------ C24
\* C24: a delivery gets one goroutine, started once, which runs to its end
\* and stays ended; the goroutine calls msg.Ack() at most once, and once the
\* call was made the delivery's state at the broker does not change again.
C24_OneTaskOneOutcome ==
  /\ [](\A m \in Msgs : m > delivered => (task[m].pc = "idle" /\ acked[m] = "none"))
  /\ [](\A m \in Msgs : task[m].acks <= 1)
  /\ [][\A m \in Msgs : task[m].pc # "idle" => task'[m].pc # "idle"]_vars
  /\ [][\A m \in Msgs : task[m].pc = "done" => task'[m] = task[m]]_vars
  /\ [][\A m \in Msgs : acked[m] # "none" => acked'[m] = acked[m]]_vars
  /\ \A m \in Msgs : (delivered >= m) ~> (task[m].pc = "done")

\* ------------------------------------------------------------------ C27
\* C27: while the Consume callback is at its send on concurrentSem and no
\* goroutine holds a slot, the send can proceed and the goroutine be started.
C27_EmptyGateAdmits ==
  (cb = "send" /\ Holders = {}) => ENABLED Acquire

\* ------------------------------------------------------------------ C26
\* C26: one goroutine publishes at most once to the response topic, calls
\* errorHandler at most once and so publishes at most once to the error
\* topic, and calls msg.Ack() at most once; while it is in the retry loop,
\* whatever its attempts returned, errorHandler was not called; and when it
\* published to both topics the error it published is the one of msg.Ack().
C26_AtMostOnePublishEach ==
  \A m \in Msgs :
    LET t == task[m] IN
    /\ t.respPubs <= 1 /\ t.errPubs <= 1 /\ t.errCalls <= 1 /\ t.acks <= 1
    /\ t.pc = "http" => (t.errCalls = 0 /\ t.errPubs = 0)
    /\ (t.respPubs >= 1 /\ t.errPubs >= 1) => t.errArg.kind = "ack"

\* A goroutine whose first attempt failed published the response, got an
\* error from msg.Ack() and published it to the error topic.
C26_Witness ==
  \E m \in Msgs :
    /\ Returned(m) /\ task[m].tries >= 2
    /\ task[m].respPubs = 1 /\ task[m].errPubs = 1 /\ task[m].acks = 1
    /\ acked[m] = "err"

\* ------------------------------------------------------------------ C30
\* C30: a goroutine started when the root context was already cancelled has
\* a cancelled goCtx throughout; each of its attempts is made under it and
\* returns no response; it never reaches msg.Ack(), and when it returns it
\* has handed the error of HandleHTTPRequest to errorHandler.
C30_LateTaskNeverAcks ==
  \A m \in Msgs :
    LET t == task[m] IN
    t.startedDone =>
      /\ t.ctxDone
      /\ t.pc \in {"http", "failed", "release"}
      /\ acked[m] = "none" /\ t.acks = 0 /\ t.respPubs = 0
      /\ (t.tries > 0 /\ cfg.HTTPEndpoint) =>
           (t.ctxAtTry = "done" /\ t.lastOut = Nil /\ t.lastResp = Nil)
      /\ t.pc \in {"failed", "release"} => t.result.kind \in {"noresp", "construct"}
      /\ t.pc = "release" => (t.errCalls = 1 /\ t.errArg = t.result)

\* A goroutine started after the cancellation made all its attempts, more
\* than one, against a valid endpoint and returned through errorHandler.
C30_Witness ==
  \E m \in Msgs :
    /\ task[m].startedDone /\ Returned(m) /\ cfg.HTTPEndpoint
    /\ task[m].tries >= 2 /\ task[m].errCalls = 1

\* ------------------------------------------- the environment-driven variant
\* Longest value of CONCURRENT.
MaxLen == 3

\* The bytes a value of CONCURRENT is made of: signs, digits, another byte.
Digits == {"0", "1", "2"}
Chars == {"-", "+", "x"} \cup Digits
DigitValue(ch) == CASE ch = "0" -> 0 [] ch = "1" -> 1 [] ch = "2" -> 2

\* Values of CONCURRENT; the empty one is also what os.Getenv returns for an
\* unset variable.
EnvStrings == UNION {[1..n -> Chars] : n \in 0..MaxLen}

\* strconv.Atoi's loop over the bytes after the sign: n = n*10 + digit, a
\* syntax error (0, err) at the first byte that is not a digit.
RECURSIVE AtoiLoop(_, _, _)
AtoiLoop(s, i, n) ==
  IF i > Len(s) THEN [n |-> n, err |-> FALSE]
  ELSE IF s[i] \notin Digits THEN [n |-> 0, err |-> TRUE]
  ELSE AtoiLoop(s, i + 1, n * 10 + DigitValue(s[i]))

\* strconv.Atoi(s): an optional sign, then at least one byte, all digits.
Atoi(s) ==
  IF Len(s) = 0 THEN [n |-> 0, err |-> TRUE]
  ELSE IF s[1] \in {"-", "+"}
       THEN IF Len(s) < 2 THEN [n |-> 0, err |-> TRUE]
            ELSE LET r == AtoiLoop(s, 2, 0) IN
                 IF s[1] = "-" /\ ~r.err THEN [r EXCEPT !.n = 0 - r.n] ELSE r
       ELSE AtoiLoop(s, 1, 0)

\* The lower bound left out.
InitialiseConcurrency_NoClamp(concurrent) ==
  IF concurrent = << >> THEN 1
  ELSE IF Atoi(concurrent).err THEN 1 ELSE Atoi(concurrent).n

\* initialiseConcurrency: the capacity of the channel it makes.
InitialiseConcurrency(concurrent) ==
  LET concurrency == IF concurrent = << >> THEN 1
                     ELSE IF Atoi(concurrent).err THEN 1
                     ELSE Atoi(concurrent).n
  IN IF concurrency < 1 THEN 1 ELSE concurrency

\* The variant's mainErr builds conn: concurrentSem is the channel made by
\* initialiseConcurrency from CONCURRENT.
Construct ==
  /\ svc.exit = NotExited /\ svc.fn = "construct"
  /\ cfg' = [cfg EXCEPT !.Concurrent = InitialiseConcurrency(env.CONCURRENT)]
  /\ svc' = [svc EXCEPT !.fn = "register"]
  /\ UNCHANGED <<graceful, env, hdr, pending, delivered, cb, concurrentSem, rootDone, task, acked>>

\* The variant before conn is built, with every value of CONCURRENT; no
\* channel was made yet.
EnvConfigs ==
  {[c EXCEPT !.Entry = "env"] :
     c \in {d \in Configs : /\ d.MaxRetries = 0 /\ d.Concurrent = 0
                            /\ d.ResponseTopic /\ d.ErrorTopic /\ d.HTTPEndpoint}}

EnvInit ==
  /\ cfg \in EnvConfigs
  /\ env \in {[outcomes |-> {[resp |-> 200, err |-> FALSE]}, faults |-> FALSE,
               bodies |-> {<<1>>}, CONCURRENT |-> s] : s \in EnvStrings}
  /\ svc = [StartSvc EXCEPT !.fn = "construct"]
  /\ hdr = NoHdr
  /\ pending = PipelineMsgs
  /\ delivered = 0
  /\ cb = "idle"
  /\ concurrentSem = 0
  /\ rootDone = FALSE
  /\ task = [m \in Msgs |-> NoTask]
  /\ acked = [m \in Msgs |-> "none"]
  /\ graceful = NoStopper

EnvNext == Construct

EnvSpec == EnvInit /\ [][EnvNext]_vars

\* ------------------------------------------------------------------ C28
\* C28: the channel made by initialiseConcurrency has capacity max(1, n)
\* when strconv.Atoi returns n for CONCURRENT without an error, capacity 1
\* when CONCURRENT is empty or Atoi returns an error, and so at least 1.
C28_CapacityAtLeastOne ==
  svc.fn = "register" =>
    LET s == env.CONCURRENT
        capacity == cfg.Concurrent IN
    /\ capacity >= 1
    /\ (s = << >> \/ Atoi(s).err) => capacity = 1
    /\ (s # << >> /\ ~Atoi(s).err) =>
         capacity = IF Atoi(s).n > 1 THEN Atoi(s).n ELSE 1

\* CONCURRENT was a negative number and the channel got capacity 1.
C28_Witness ==
  /\ svc.fn = "register"
  /\ env.CONCURRENT = <<"-", "2">> /\ Atoi(env.CONCURRENT).n = -2
  /\ cfg.Concurrent = 1

\* ---------------------------------------------------------- redelivery
\* The consumer has AckPolicy explicit and no limit of deliveries: a message
\* whose delivery was not acknowledged within AckWait is delivered again.
\* AckWait exceeds the goroutine's deadline by Second; the redelivery is
\* taken after the goroutine of the previous delivery has ended.
Redeliver ==
  /\ svc.consuming
  /\ pending = 0 /\ delivered >= 1 /\ delivered < NumMsgs
  /\ task[delivered].pc = "done"
  /\ \A k \in 1..delivered : acked[k] # "ok"
  /\ pending' = pending + 1
  /\ UNCHANGED <<graceful, cfg, env, hdr, svc, delivered, cb, concurrentSem, rootDone, task, acked>>

\* One message in the stream, delivered up to NumMsgs times: delivery k + 1
\* is the redelivery of delivery k. No attempt or one attempt per delivery,
\* an endpoint that answers 200 or 500, a broker that may fail.
RedeliverConfigs == {c \in PipelineConfigs : c.MaxRetries <= 0}

RedeliverInit ==
  /\ cfg \in RedeliverConfigs
  /\ env = [outcomes |-> {[resp |-> 200, err |-> FALSE], [resp |-> 500, err |-> FALSE]},
            faults |-> TRUE, bodies |-> {<<1>>}]
  /\ pending = 1
  /\ InitState

RedeliverNext ==
  \/ Redeliver
  \/ Next

RedeliverSpec == RedeliverInit /\ [][RedeliverNext]_vars

\* The broker redelivers, the transport calls the callback, the Go scheduler
\* runs every runnable goroutine.
RedeliverFairSpec ==
  /\ RedeliverInit /\ [][RedeliverNext]_vars
  /\ WF_vars(Redeliver) /\ WF_vars(Deliver) /\ WF_vars(Acquire)
  /\ \A m \in Msgs : WF_vars(TaskStep(m))

C29_NegativeRetriesNeverAck ==
  cfg.MaxRetries < 0 =>
    \A m \in Msgs :
      LET t == task[m] IN
      /\ t.tries = 0 /\ t.ctxAtTry = "untried"
      /\ t.pc \in {"idle", "http", "failed", "release", "done"}
      /\ acked[m] = "none" /\ t.acks = 0 /\ t.respPubs = 0
      /\ t.pc \in {"failed", "release"} => t.result = [kind |-> "noresp", code |-> Nil]
      /\ t.pc = "release" =>
           /\ t.errCalls = 1 /\ t.errArg = t.result
           /\ t.errPubs = IF cfg.ErrorTopic THEN 1 ELSE 0

\* The message was delivered a second time and the goroutine of that
\* delivery, too, made no attempt and published the error.
C29_Witness ==
  /\ cfg.MaxRetries < 0 /\ delivered >= 2
  /\ task[1].pc = "done" /\ acked[1] = "none"
  /\ Returned(2) /\ task[2].tries = 0 /\ task[2].errPub = "ok"

\* ------------------------------------------------ completion of a service
\* The start-up and the life of the service with servers whose run function
\* may return at any moment after they were started.
StopNext ==
  \/ ServerReturn
  \/ StartNext

\* The Go scheduler runs every runnable goroutine of the service; a server
\* need not stop by itself.
StopFairSpec ==
  /\ StartInit /\ [][StopNext]_vars
  /\ WF_vars(Connect) /\ WF_vars(AddGracefulService) /\ WF_vars(ListenAndServe)
  /\ WF_vars(FnReturn) /\ WF_vars(FnReport) /\ WF_vars(FnCancel)
  /\ WF_vars(Attach) /\ WF_vars(Create) /\ WF_vars(Consume)
  /\ WF_vars(ConsumerReturn) /\ WF_vars(NotifyDone)
  /\ WF_vars(MainStartup) /\ WF_vars(MainServe) /\ WF_vars(ShutdownAll)
  /\ WF_vars(MainReturn)

\* The run function of a registered service has returned.
RunReturned == svc.run \in {"notify", "done"} \/ svc.httpDown > 0

\* A goroutine of the stopper has made its send on doneAny.
DoneSent == svc.run = "done" \/ svc.httpDown > 0

\* The root context is cancelled and ShutdownAll has returned.
ShutdownRan == rootDone /\ (svc.main = "final" \/ svc.exit = 0)

\* ------------------------------------------------------------------ C31
\* C31 as stated: once the run function of a registered service has returned,
\* the root context gets cancelled and ShutdownAll is run.
C31_AsStated == RunReturned ~> ShutdownRan

\* C31 amended: a send made on doneAny while Main has not yet received from
\* it stays in the buffer; once a run function has returned, the root
\* context gets cancelled and ShutdownAll is run, or Main leaves its start-up
\* select with os.Exit(1), which it does only with the root context cancelled.
C31_CompletionNotLost ==
  /\ []((DoneSent /\ svc.main \in {"waitInit", "serving"} /\ svc.exit = NotExited)
          => svc.doneAny = 1)
  /\ []((RunReturned /\ svc.exit = 1) => rootDone)
  /\ RunReturned ~> (ShutdownRan \/ svc.exit = 1)

\* The consumer's run function returned and made its send before mainInit
\* was closed: Main is in its start-up select, the element is in the buffer.
C31_Witness ==
  /\ svc.run = "done" /\ svc.doneAny = 1
  /\ svc.main = "waitInit" /\ ~svc.mainInit /\ svc.exit = NotExited

\* ------------------------------------------------- the graceful stopper
\* The mutex taken whoever holds it.
CanLock_Always(mx) == TRUE

\* g.mx.Lock() returns when no goroutine holds the mutex.
CanLock(mx) == mx = "free"

\* The services in g.servers.
Registered == {graceful.servers[i] : i \in DOMAIN graceful.servers}

\* start: g.mx.Lock().
StartLock(s) ==
  /\ graceful.reg[s] = "idle"
  /\ CanLock(graceful.mx)
  /\ graceful' = [graceful EXCEPT !.mx = "start", !.reg[s] = "locked"]
  /\ UNCHANGED <<cfg, env, svc, hdr, pending, delivered, cb, concurrentSem, rootDone, task, acked>>

\* start: g.servers = append(g.servers, srv), the goroutine of run is
\* started, the deferred Unlock runs.
StartRegister(s) ==
  /\ graceful.reg[s] = "locked"
  /\ graceful' = [graceful EXCEPT !.servers = Append(@, s), !.reg[s] = "done",
                                  !.mx = "free"]
  /\ UNCHANGED <<cfg, env, svc, hdr, pending, delivered, cb, concurrentSem, rootDone, task, acked>>

\* ShutdownAll: g.mx.Lock(); the range expression g.servers is evaluated.
ShutdownLock ==
  /\ graceful.sd = "idle" /\ graceful.rounds < MaxShutdowns
  /\ CanLock(graceful.mx)
  /\ graceful' = [graceful EXCEPT !.mx = "shutdown", !.sd = "range",
                                  !.todo = graceful.servers,
                                  !.batch = Registered, !.wg = 0]
  /\ UNCHANGED <<cfg, env, svc, hdr, pending, delivered, cb, concurrentSem, rootDone, task, acked>>

\* ShutdownAll: one round of the loop: wg.Add(1), go func(s server).
ShutdownSpawn ==
  /\ graceful.sd = "range" /\ graceful.todo # << >>
  /\ graceful' = [graceful EXCEPT !.wg = @ + 1,
                                  !.worker[Head(graceful.todo)] = "spawned",
                                  !.todo = Tail(@)]
  /\ UNCHANGED <<cfg, env, svc, hdr, pending, delivered, cb, concurrentSem, rootDone, task, acked>>

\* The goroutine of a server calls s.shutdownFn(ctx).
ShutdownFnInvoke(s) ==
  /\ graceful.worker[s] = "spawned"
  /\ graceful' = [graceful EXCEPT !.worker[s] = "in", !.calls[s] = @ + 1]
  /\ UNCHANGED <<cfg, env, svc, hdr, pending, delivered, cb, concurrentSem, rootDone, task, acked>>

\* s.shutdownFn(ctx) returns, the result is logged, the deferred wg.Done()
\* runs.
ShutdownFnReturn(s) ==
  /\ graceful.worker[s] = "in"
  /\ graceful' = [graceful EXCEPT !.worker[s] = "returned", !.wg = @ - 1]
  /\ UNCHANGED <<cfg, env, svc, hdr, pending, delivered, cb, concurrentSem, rootDone, task, acked>>

\* ShutdownAll after the loop: wg.Wait() returns, g.servers = nil, the
\* deferred Unlock runs.
ShutdownReturn ==
  /\ graceful.sd = "range" /\ graceful.todo = << >>
  /\ graceful.wg = 0
  /\ graceful' = [graceful EXCEPT !.servers = << >>, !.mx = "free", !.sd = "idle",
                                  !.cleared = @ \cup Registered,
                                  !.rounds = @ + 1]
  /\ UNCHANGED <<cfg, env, svc, hdr, pending, delivered, cb, concurrentSem, rootDone, task, acked>>

\* A stopper just made; MaxServices goroutines call start, one goroutine
\* calls ShutdownAll MaxShutdowns times, at any moments.
StopperInit ==
  /\ cfg \in {c \in GateConfigs : c.Concurrent = 1}
  /\ env = [outcomes |-> {[resp |-> 200, err |-> FALSE]}, faults |-> FALSE,
            bodies |-> {<<1>>}]
  /\ svc = StartSvc
  /\ hdr = NoHdr
  /\ pending = 0
  /\ delivered = 0
  /\ cb = "idle"
  /\ concurrentSem = 0
  /\ rootDone = FALSE
  /\ task = [m \in Msgs |-> NoTask]
  /\ acked = [m \in Msgs |-> "none"]
  /\ graceful = NoStopper

StopperNext ==
  \/ \E s \in Services : StartLock(s)
  \/ \E s \in Services : StartRegister(s)
  \/ ShutdownLock
  \/ ShutdownSpawn
  \/ \E s \in Services : ShutdownFnInvoke(s)
  \/ \E s \in Services : ShutdownFnReturn(s)
  \/ ShutdownReturn

StopperSpec == StopperInit /\ [][StopperNext]_vars

\* ------------------------------------------------------------------ C32
\* C32: ShutdownAll ranges over the services registered when it took the
\* mutex; when it returns each of them had its shutdown function invoked
\* once and returned, and the registry is empty; no shutdown function is
\* ever invoked twice; no caller of start is between Lock and Unlock while
\* ShutdownAll is; and a registered service is in the registry, not shut
\* down, or it was shut down by the call that removed it.
C32_ShutdownAllOnceEach ==
  /\ [](\A s \in Services : graceful.calls[s] <= 1)
  /\ [][(graceful.sd = "idle" /\ graceful'.sd = "range")
          => graceful'.batch = Registered]_vars
  /\ [][(graceful.sd = "range" /\ graceful'.sd = "idle")
          => /\ \A s \in graceful.batch :
                  graceful.calls[s] = 1 /\ graceful.worker[s] = "returned"
             /\ \A s \in Services : graceful.worker[s] \notin {"spawned", "in"}
             /\ graceful'.servers = << >>]_vars
  /\ [](Cardinality({s \in Services : graceful.reg[s] = "locked"})
          + (IF graceful.sd = "range" THEN 1 ELSE 0) <= 1)
  /\ [](\A s \in Services :
          graceful.reg[s] = "done" =>
            /\ s \in Registered \/ s \in graceful.cleared
            /\ s \in graceful.cleared =>
                 (graceful.calls[s] = 1 /\ graceful.worker[s] = "returned")
            /\ (s \in Registered /\ graceful.sd = "idle") => graceful.calls[s] = 0)

\* The first ShutdownAll has returned having shut down the services it found;
\* another service, registered since the call took the mutex, is in the
\* registry and was not shut down.
C32_Witness ==
  /\ graceful.rounds = 1 /\ graceful.sd = "idle"
  /\ graceful.cleared # {} /\ graceful.batch = graceful.cleared
  /\ \E s \in Services :
       /\ s \notin graceful.cleared /\ graceful.reg[s] = "done"
       /\ s \in Registered /\ graceful.calls[s] = 0

====
